---- MODULE Spec2Model ----
(***************************************************************************)
(* Fixed-point multi-level wavelet filter (wavelet_filter.c).              *)
(*                                                                         *)
(* Buffers are sequences; C index k is sequence position k + 1.            *)
(* Samples and coefficients are int16_t values, wrapped by Int16.          *)
(***************************************************************************)
EXTENDS Integers, Sequences, FiniteSets, TLC

(***************************************************************************)
(* Program constants (wavelet_filter.h)                                    *)
(***************************************************************************)
MAX_SIGNAL_LENGTH == 256

MAX_DECOMPOSITION_LEVELS == 8

(***************************************************************************)
(* Bounds of the model                                                     *)
(***************************************************************************)
\* longest signal handed to wavelet_filter in the exhaustive specification
MaxLen == 8

\* longest signal handed to wavelet_filter with concurrent thresholding
MaxParLen == 6

\* longest signal handed directly to dwt / idwt
MaxN == 6

\* longest band handed directly to apply_thresholding
MaxBand == 2

(***************************************************************************)
(* Integer arithmetic of the C code                                        *)
(***************************************************************************)
RECURSIVE Pow2(_)
Pow2(k) == IF k = 0 THEN 1 ELSE 2 * Pow2(k - 1)

\* conversion to int16_t: two's complement wrap
Int16(x) ==
    LET m == x % 65536 IN IF m >= 32768 THEN m - 65536 ELSE m

\* x >> q on a signed value: arithmetic shift, rounds toward minus infinity
Sar(x, q) == x \div Pow2(q)

\* n >> k on an unsigned value
Shr(n, k) == n \div Pow2(k)

\* C remainder: the result has the sign of the dividend
CRem(a, n) == IF a >= 0 THEN a % n ELSE -((-a) % n)

\* abs() of <stdlib.h> on an int16_t promoted to int
Abs(x) == IF x < 0 THEN -x ELSE x

\* read of element k of a buffer; an index outside the buffer has no value of
\* its own, the caller records the index
Rd(buf, k) == IF k >= 0 /\ k < Len(buf) THEN buf[k + 1] ELSE 0

(***************************************************************************)
(* Filter bank registry                                                    *)
(***************************************************************************)
haar_h0 == <<11585, 11585>>
haar_h1 == <<11585, -11585>>
haar_g0 == <<11585, 11585>>
haar_g1 == <<-11585, 11585>>

db4_h0 == <<7913, 13705, 3672, -2120>>
db4_h1 == <<-2120, -3672, 13705, -7913>>
db4_g0 == <<-2120, 3672, 13705, 7913>>
db4_g1 == <<-7913, 13705, -3672, -2120>>

db6_h0 == <<3853, 9345, 5326, -1565, -990, 408>>
db6_h1 == <<408, 990, -1565, -5326, 9345, -3853>>
db6_g0 == <<408, -990, -1565, 5326, 9345, 3853>>
db6_g1 == <<-3853, 9345, -5326, -1565, 990, 408>>

\* the enumerators of wavelet_type_t, and one value outside the enumeration
WaveletTypes == {"WAVELET_DB4", "WAVELET_DB6", "WAVELET_HAAR"}

WaveletValues == WaveletTypes \cup {"WAVELET_OTHER"}

\* the switch of get_wavelet_coeffs: what is stored through the five outputs
get_wavelet_coeffs(wavelet) ==
    CASE wavelet = "WAVELET_DB6" ->
           [h0 |-> db6_h0, h1 |-> db6_h1, g0 |-> db6_g0, g1 |-> db6_g1, len |-> 6]
      [] wavelet = "WAVELET_HAAR" ->
           [h0 |-> haar_h0, h1 |-> haar_h1, g0 |-> haar_g0, g1 |-> haar_g1, len |-> 2]
      [] OTHER ->
           [h0 |-> db4_h0, h1 |-> db4_h1, g0 |-> db4_g0, g1 |-> db4_g1, len |-> 4]

\* the destinations a call site passes: TRUE is the address of a local,
\* FALSE is NULL
KernelOutputs == {"h0", "h1", "g0", "g1", "len"}

DwtKernelDests ==
    [h0 |-> TRUE, h1 |-> TRUE, g0 |-> TRUE, g1 |-> TRUE, len |-> TRUE]

IdwtKernelDests ==
    [h0 |-> FALSE, h1 |-> FALSE, g0 |-> TRUE, g1 |-> TRUE, len |-> TRUE]

\* every branch of the switch stores through all five destinations
StoresThroughNull(dests) == \E f \in KernelOutputs : ~dests[f]

\* dwt reaches its call of get_wavelet_coeffs unless n < 2
DwtLooksUp(n) == ~(n < 2)

\* dwt stores through a NULL destination it hands to get_wavelet_coeffs
DwtNullStore(n) == DwtLooksUp(n) /\ StoresThroughNull(DwtKernelDests)

(***************************************************************************)
(* Single-level forward transform                                          *)
(***************************************************************************)
\* dwt returns early when n < 2 or n < kernel_len
DwtRuns(n, wavelet) ==
    ~(n < 2) /\ ~(n < get_wavelet_coeffs(wavelet).len)

\* DwtIdx without the + n that keeps the dividend non-negative
DwtIdx_NoBias(i, j, n) == CRem(2 * i - j, n)

DwtIdx(i, j, n) == CRem(2 * i - j + n, n)

\* the inner tap loop: sum over j < kernel_len in a 32-bit accumulator (the
\* sum of the absolute taps of each kernel is below 2^15, so it cannot wrap)
RECURSIVE DwtAcc(_, _, _, _, _)
DwtAcc(input, i, j, n, kernel) ==
    IF j = Len(kernel) THEN 0
    ELSE Rd(input, DwtIdx(i, j, n)) * kernel[j + 1]
         + DwtAcc(input, i, j + 1, n, kernel)

\* the band written by dwt from kernel h, positions 0 .. (n >> 1) - 1
DwtBand(input, n, kernel, q_format) ==
    [i1 \in 1..Shr(n, 1) |->
        Int16(Sar(DwtAcc(input, i1 - 1, 0, n, kernel), q_format))]

\* the input indices dwt computes
DwtIndices(n, wavelet) ==
    IF DwtRuns(n, wavelet)
    THEN {DwtIdx(i, j, n) : i \in 0..(Shr(n, 1) - 1),
                            j \in 0..(get_wavelet_coeffs(wavelet).len - 1)}
    ELSE {}

\* dwt: the two bands, or ran = FALSE when it returned without writing
dwt(input, n, wavelet, q_format) ==
    LET k == get_wavelet_coeffs(wavelet) IN
    IF DwtRuns(n, wavelet)
    THEN [ran |-> TRUE,
          approx |-> DwtBand(input, n, k.h0, q_format),
          detail |-> DwtBand(input, n, k.h1, q_format)]
    ELSE [ran |-> FALSE, approx |-> <<>>, detail |-> <<>>]

(***************************************************************************)
(* Single-level inverse transform                                          *)
(***************************************************************************)
\* idwt reaches the kernel lookup unless n_input_coeffs < 1
IdwtLooksUp(m) == ~(m < 1)

\* idwt returns early when n_input_coeffs < 1 or < kernel_len >> 1
IdwtRuns(m, wavelet) ==
    ~(m < 1) /\ ~(m < Shr(get_wavelet_coeffs(wavelet).len, 1))

IdwtIdx(i, j, output_len) == CRem(2 * i - j + output_len, output_len)

\* one pass of idwt (approximation with g0, or detail with g1): everything
\* the pass adds into output position k.  The += on int16_t wraps, and
\* wrapping addition does not depend on the order of the additions.
RECURSIVE IdwtTapSum(_, _, _, _, _, _, _)
IdwtTapSum(coeffs, m, j, k, kernel, output_len, q_format) ==
    IF j = Len(kernel) THEN 0
    ELSE LET hits == {i \in 0..(m - 1) : IdwtIdx(i, j, output_len) = k}
             RECURSIVE SumOver(_)
             SumOver(S) ==
                 IF S = {} THEN 0
                 ELSE LET i == CHOOSE e \in S : TRUE IN
                      Int16(Sar(Rd(coeffs, i) * kernel[j + 1], q_format))
                      + SumOver(S \ {i})
         IN SumOver(hits)
            + IdwtTapSum(coeffs, m, j + 1, k, kernel, output_len, q_format)

\* the output indices idwt computes
IdwtIndices(m, wavelet) ==
    IF IdwtRuns(m, wavelet)
    THEN {IdwtIdx(i, j, 2 * m) : i \in 0..(m - 1),
                                 j \in 0..(get_wavelet_coeffs(wavelet).len - 1)}
    ELSE {}

\* idwt: the 2*m output samples (memset to 0, then both passes), or
\* ran = FALSE when it returned without writing
idwt(approx, detail, m, wavelet, q_format) ==
    LET k == get_wavelet_coeffs(wavelet)
        output_len == 2 * m
    IN IF IdwtRuns(m, wavelet)
       THEN [ran |-> TRUE,
             out |-> [k1 \in 1..output_len |->
                        Int16(IdwtTapSum(approx, m, 0, k1 - 1, k.g0, output_len, q_format)
                              + IdwtTapSum(detail, m, 0, k1 - 1, k.g1, output_len, q_format))]]
       ELSE [ran |-> FALSE, out |-> <<>>]

(***************************************************************************)
(* Thresholding stage                                                      *)
(***************************************************************************)
ThresholdTypes == {"THRESHOLD_HARD", "THRESHOLD_SOFT", "THRESHOLD_ZERO"}

\* ThresholdCoeff with the two soft shrink directions exchanged
ThresholdCoeff_ShrinkAway(c, threshold_type, threshold) ==
    CASE threshold_type = "THRESHOLD_HARD" ->
           IF Abs(c) < threshold THEN 0 ELSE c
      [] threshold_type = "THRESHOLD_SOFT" ->
           IF Abs(c) < threshold THEN 0
           ELSE Int16(IF c > 0 THEN c + threshold ELSE c - threshold)
      [] threshold_type = "THRESHOLD_ZERO" -> 0
      [] OTHER -> c

\* what apply_thresholding leaves in one coefficient
ThresholdCoeff(c, threshold_type, threshold) ==
    CASE threshold_type = "THRESHOLD_HARD" ->
           IF Abs(c) < threshold THEN 0 ELSE c
      [] threshold_type = "THRESHOLD_SOFT" ->
           IF Abs(c) < threshold THEN 0
           ELSE Int16(IF c > 0 THEN c - threshold ELSE c + threshold)
      [] threshold_type = "THRESHOLD_ZERO" -> 0
      [] OTHER -> c

\* apply_thresholding on the first `length` coefficients of a band
apply_thresholding(coeffs, length, threshold_type, threshold) ==
    IF length = 0 THEN coeffs
    ELSE [k \in 1..Len(coeffs) |->
            IF k <= length
            THEN ThresholdCoeff(coeffs[k], threshold_type, threshold)
            ELSE coeffs[k]]

(***************************************************************************)
(* State of one wavelet_filter call                                        *)
(***************************************************************************)
VARIABLES
    pc,                  \* position of the call
    signal,              \* the caller's signal buffer
    sig0,                \* the caller's signal buffer at entry
    length,              \* the length argument
    signal_null,         \* the signal argument is NULL
    config_null,         \* the config argument is NULL
    config,              \* the caller's wavelet_config_t
    all_coeffs,          \* the coefficient region
    approx_coeffs_ptrs,  \* per level: offset of the approximation band
    detail_coeffs_ptrs,  \* per level: offset of the detail band
    levels,              \* active level count
    current_n,           \* running length of the decomposition
    level_i,             \* loop variable i of the running loop
    current_reconstructed_signal,
    current_reconstructed_length,
    cur_block,           \* heap block behind current_reconstructed_signal
    live,                \* heap blocks allocated and not freed
    freed,               \* heap blocks passed to free
    double_free,         \* free was called on a block already freed
    n_allocs,            \* successful malloc calls
    alloc_failed,        \* which malloc returned NULL, or "none"
    ub,                  \* undefined behaviour executed so far
    noop_levels,         \* levels whose dwt returned without writing
    decomposed_coeffs,   \* the coefficient region when decomposition ended
    thresholded          \* <<level, index>> of the coefficients thresholded
                         \* by workers, in order (parallel thresholding only)

\* a direct call of dwt followed by idwt on its bands (test_single_dwt_idwt)
VARIABLES
    t_pc,                \* position of the caller
    t_wavelet,           \* wavelet argument
    t_q_format,          \* q_format argument
    t_input,             \* signal_in
    t_n,                 \* n
    t_approx,            \* approx_out
    t_detail,            \* detail_out
    t_output,            \* signal_reconstructed
    t_dwt_idx,           \* the input indices dwt computed
    t_idwt_idx,          \* the output indices idwt computed
    t_ub                 \* undefined behaviour executed so far

\* direct calls of apply_thresholding on two copies of one band
VARIABLES
    h_band,              \* the band before thresholding
    h_threshold,         \* config->threshold_value
    h_hard,              \* the copy given to THRESHOLD_HARD
    h_soft,              \* the copy given to THRESHOLD_SOFT
    h_hard_done,
    h_soft_done

fvars == <<pc, signal, sig0, length, signal_null, config_null, config,
           all_coeffs, approx_coeffs_ptrs, detail_coeffs_ptrs, levels,
           current_n, level_i, current_reconstructed_signal,
           current_reconstructed_length, cur_block, live, freed, double_free,
           n_allocs, alloc_failed, ub, noop_levels, decomposed_coeffs,
           thresholded>>

tvars == <<t_pc, t_wavelet, t_q_format, t_input, t_n, t_approx, t_detail,
           t_output, t_dwt_idx, t_idwt_idx, t_ub>>

hvars == <<h_band, h_threshold, h_hard, h_soft, h_hard_done, h_soft_done>>

vars == <<fvars, tvars, hvars>>

(***************************************************************************)
(* Inputs                                                                  *)
(***************************************************************************)
\* sample patterns: first sample and slope
SampleBases == {-50, 300}

SampleSteps == {0, 100}

Ramp(n, b, s) == [k \in 1..n |-> b + s * (k - 1)]

SignalsOfLength(n) == {Ramp(n, b, s) : b \in SampleBases, s \in SampleSteps}

\* a buffer one sample longer than the filter accepts
OversizeSignal == Ramp(MAX_SIGNAL_LENGTH + 1, 0, 1)

FilterSignals ==
    UNION {SignalsOfLength(n) : n \in 0..MaxLen} \cup {OversizeSignal}

FilterConfigs ==
    [wavelet : WaveletTypes,
     threshold_type : ThresholdTypes,
     decomposition_levels : 0..(MAX_DECOMPOSITION_LEVELS + 1),
     threshold_value : {0, 100},
     q_format : {14}]

\* what a fresh malloc block may hold before it is written
GarbageVals == {0, 4660}

Fill(n, g) == [k \in 1..n |-> g]

AllCoeffsBlock == <<"all_coeffs", 0>>

ReconBlock(k) == <<"recon", k>>

(***************************************************************************)
(* wavelet_filter: helpers                                                 *)
(***************************************************************************)
\* ValidArgs without the upper bound on the length
ValidArgs_NoMaxLength(sn, cn, len, cfg) ==
    /\ ~(sn \/ cn \/ len = 0)
    /\ ~(cfg.decomposition_levels = 0
         \/ cfg.decomposition_levels > MAX_DECOMPOSITION_LEVELS)

\* the two argument checks at the top of wavelet_filter
ValidArgs(sn, cn, len, cfg) ==
    /\ ~(sn \/ cn \/ len = 0 \/ len > MAX_SIGNAL_LENGTH)
    /\ ~(cfg.decomposition_levels = 0
         \/ cfg.decomposition_levels > MAX_DECOMPOSITION_LEVELS)

\* PlanTotal counting one band per level instead of two
RECURSIVE PlanTotal_OneBand(_, _, _)
PlanTotal_OneBand(k, temp_n, lv) ==
    IF k >= lv \/ temp_n < 2 THEN 0
    ELSE Shr(temp_n, 1) + PlanTotal_OneBand(k + 1, Shr(temp_n, 1), lv)

\* the capacity-planning loop: total_coeffs_size
RECURSIVE PlanTotal(_, _, _)
PlanTotal(k, temp_n, lv) ==
    IF k >= lv \/ temp_n < 2 THEN 0
    ELSE Shr(temp_n, 1) * 2 + PlanTotal(k + 1, Shr(temp_n, 1), lv)

\* the partition loop: the offsets stored in approx_coeffs_ptrs
RECURSIVE PlanApprox(_, _, _, _)
PlanApprox(k, temp_n, current_offset, lv) ==
    IF k >= lv \/ temp_n < 2 THEN <<>>
    ELSE <<current_offset>>
         \o PlanApprox(k + 1, Shr(temp_n, 1),
                       current_offset + Shr(temp_n, 1) * 2, lv)

\* PlanDetail with the detail band placed on the approximation band
RECURSIVE PlanDetail_OnApprox(_, _, _, _)
PlanDetail_OnApprox(k, temp_n, current_offset, lv) ==
    IF k >= lv \/ temp_n < 2 THEN <<>>
    ELSE <<current_offset>>
         \o PlanDetail_OnApprox(k + 1, Shr(temp_n, 1),
                                current_offset + Shr(temp_n, 1) * 2, lv)

\* the partition loop: the offsets stored in detail_coeffs_ptrs
RECURSIVE PlanDetail(_, _, _, _)
PlanDetail(k, temp_n, current_offset, lv) ==
    IF k >= lv \/ temp_n < 2 THEN <<>>
    ELSE <<current_offset + Shr(temp_n, 1)>>
         \o PlanDetail(k + 1, Shr(temp_n, 1),
                       current_offset + Shr(temp_n, 1) * 2, lv)

\* n elements of a buffer starting at offset off
Band(buf, off, n) == [k \in 1..n |-> Rd(buf, off + k - 1)]

\* a buffer with vals stored from offset off
WriteBand(buf, off, vals) ==
    [k \in 1..Len(buf) |->
        IF k > off /\ k <= off + Len(vals) THEN vals[k - off] ELSE buf[k]]

\* free(): the blocks leave the heap
Free(blocks) ==
    /\ live' = live \ blocks
    /\ freed' = freed \cup blocks
    /\ double_free' = (double_free \/ (blocks \cap freed) # {})

\* what each failure path of wavelet_filter frees before it returns
FreedOnCoeffsFail == {}

FreedOnReconFail == {AllCoeffsBlock}

\* FreedOnLevelFail without the free of the running reconstruction buffer
FreedOnLevelFail_KeepsCurrent(cur) == {AllCoeffsBlock}

FreedOnLevelFail(cur) == {AllCoeffsBlock, ReconBlock(cur)}

\* what the last reconstruction step and the end of the function free
FreedOnLastLevel(cur) == {ReconBlock(cur), AllCoeffsBlock}

\* what the end of the function frees when the reconstruction loop ran no step
FreedOnLoopSkipped == {AllCoeffsBlock}

(***************************************************************************)
(* wavelet_filter: steps                                                   *)
(***************************************************************************)
\* no direct dwt / idwt call is in progress
TransformIdle ==
    /\ t_pc = "idle"
    /\ t_wavelet = "WAVELET_DB4"
    /\ t_q_format = 0
    /\ t_input = <<>>
    /\ t_n = 0
    /\ t_approx = <<>>
    /\ t_detail = <<>>
    /\ t_output = <<>>
    /\ t_dwt_idx = {}
    /\ t_idwt_idx = {}
    /\ t_ub = {}

\* no direct apply_thresholding call is in progress
ThresholdIdle ==
    /\ h_band = <<>>
    /\ h_threshold = 0
    /\ h_hard = <<>>
    /\ h_soft = <<>>
    /\ h_hard_done = FALSE
    /\ h_soft_done = FALSE

\* the state at the call of wavelet_filter, arguments drawn from the given sets
FilterStart(signals, configs, nulls) ==
    /\ pc = "call"
    /\ signal \in signals
    /\ sig0 = signal
    /\ length = Len(signal)
    /\ signal_null \in nulls
    /\ config_null \in nulls
    /\ config \in configs
    /\ all_coeffs = <<>>
    /\ approx_coeffs_ptrs = <<>>
    /\ detail_coeffs_ptrs = <<>>
    /\ levels = 0
    /\ current_n = 0
    /\ level_i = 0
    /\ current_reconstructed_signal = <<>>
    /\ current_reconstructed_length = 0
    /\ cur_block = 0
    /\ live = {}
    /\ freed = {}
    /\ double_free = FALSE
    /\ n_allocs = 0
    /\ alloc_failed = "none"
    /\ ub = {}
    /\ noop_levels = {}
    /\ decomposed_coeffs = <<>>
    /\ thresholded = <<>>

FilterInit == FilterStart(FilterSignals, FilterConfigs, BOOLEAN)

\* invalid arguments: return at once
RejectArgs ==
    /\ pc = "call"
    /\ ~ValidArgs(signal_null, config_null, length, config)
    /\ pc' = "done"
    /\ UNCHANGED <<decomposed_coeffs, thresholded, signal, sig0, length,
                   signal_null, config_null, config, all_coeffs,
                   approx_coeffs_ptrs, detail_coeffs_ptrs, levels, current_n,
                   level_i, current_reconstructed_signal,
                   current_reconstructed_length, cur_block, live, freed,
                   double_free, n_allocs, alloc_failed, ub, noop_levels>>
    /\ UNCHANGED <<tvars, hvars>>

\* capacity planning, malloc of the coefficient region returns NULL
AllocCoeffsFail ==
    /\ pc = "call"
    /\ ValidArgs(signal_null, config_null, length, config)
    /\ alloc_failed' = "all_coeffs"
    /\ Free(FreedOnCoeffsFail)
    /\ pc' = "done"
    /\ UNCHANGED <<decomposed_coeffs, thresholded, signal, sig0, length,
                   signal_null, config_null, config, all_coeffs,
                   approx_coeffs_ptrs, detail_coeffs_ptrs, levels, current_n,
                   level_i, current_reconstructed_signal,
                   current_reconstructed_length, cur_block, n_allocs, ub,
                   noop_levels>>
    /\ UNCHANGED <<tvars, hvars>>

\* capacity planning, malloc of the coefficient region, partition
AllocCoeffs ==
    /\ pc = "call"
    /\ ValidArgs(signal_null, config_null, length, config)
    /\ \E g \in GarbageVals :
         all_coeffs' = Fill(PlanTotal(0, length, config.decomposition_levels), g)
    /\ approx_coeffs_ptrs' = PlanApprox(0, length, 0, config.decomposition_levels)
    /\ detail_coeffs_ptrs' = PlanDetail(0, length, 0, config.decomposition_levels)
    /\ levels' = config.decomposition_levels
    /\ current_n' = length
    /\ level_i' = 0
    /\ live' = live \cup {AllCoeffsBlock}
    /\ n_allocs' = n_allocs + 1
    /\ pc' = "decompose"
    /\ UNCHANGED <<decomposed_coeffs, thresholded, signal, sig0, length,
                   signal_null, config_null, config,
                   current_reconstructed_signal,
                   current_reconstructed_length, cur_block, freed,
                   double_free, alloc_failed, ub, noop_levels>>
    /\ UNCHANGED <<tvars, hvars>>

\* the input of level i: the caller's signal, or the previous approximation
DecomposeInput ==
    IF level_i = 0 THEN signal
    ELSE Band(all_coeffs, approx_coeffs_ptrs[level_i], current_n)

\* one iteration of the decomposition loop that calls dwt
DecomposeLevel ==
    /\ pc = "decompose"
    /\ level_i < levels
    /\ ~(current_n < 2)
    /\ LET r == dwt(DecomposeInput, current_n, config.wavelet, config.q_format)
       IN /\ all_coeffs' =
                IF r.ran
                THEN WriteBand(WriteBand(all_coeffs,
                                         approx_coeffs_ptrs[level_i + 1], r.approx),
                               detail_coeffs_ptrs[level_i + 1], r.detail)
                ELSE all_coeffs
          /\ noop_levels' =
                IF r.ran THEN noop_levels ELSE noop_levels \cup {level_i}
    /\ ub' = IF DwtNullStore(current_n) THEN ub \cup {"null_store"} ELSE ub
    /\ current_n' = Shr(current_n, 1)
    /\ level_i' = level_i + 1
    /\ UNCHANGED <<decomposed_coeffs, thresholded, pc, signal, sig0, length,
                   signal_null, config_null, config, approx_coeffs_ptrs,
                   detail_coeffs_ptrs, levels, current_reconstructed_signal,
                   current_reconstructed_length, cur_block, live, freed,
                   double_free, n_allocs, alloc_failed>>
    /\ UNCHANGED <<tvars, hvars>>

\* the iteration that finds current_n < 2: shrink the level count and break
DecomposeShrink ==
    /\ pc = "decompose"
    /\ level_i < levels
    /\ current_n < 2
    /\ levels' = level_i
    /\ level_i' = 0
    /\ pc' = "threshold"
    /\ decomposed_coeffs' = all_coeffs
    /\ UNCHANGED <<thresholded, signal, sig0, length, signal_null,
                   config_null, config, all_coeffs, approx_coeffs_ptrs,
                   detail_coeffs_ptrs, current_n,
                   current_reconstructed_signal,
                   current_reconstructed_length, cur_block, live, freed,
                   double_free, n_allocs, alloc_failed, ub, noop_levels>>
    /\ UNCHANGED <<tvars, hvars>>

\* the decomposition loop ends with every requested level done
DecomposeEnd ==
    /\ pc = "decompose"
    /\ ~(level_i < levels)
    /\ level_i' = 0
    /\ pc' = "threshold"
    /\ decomposed_coeffs' = all_coeffs
    /\ UNCHANGED <<thresholded, signal, sig0, length, signal_null,
                   config_null, config, all_coeffs, approx_coeffs_ptrs,
                   detail_coeffs_ptrs, levels, current_n,
                   current_reconstructed_signal,
                   current_reconstructed_length, cur_block, live, freed,
                   double_free, n_allocs, alloc_failed, ub, noop_levels>>
    /\ UNCHANGED <<tvars, hvars>>

\* one iteration of the thresholding loop: level i's detail band
ThresholdInput ==
    Band(all_coeffs, detail_coeffs_ptrs[level_i + 1], Shr(length, level_i + 1))

ThresholdLevel ==
    /\ pc = "threshold"
    /\ level_i < levels
    /\ all_coeffs' =
          WriteBand(all_coeffs, detail_coeffs_ptrs[level_i + 1],
                    apply_thresholding(ThresholdInput, Shr(length, level_i + 1),
                                       config.threshold_type,
                                       config.threshold_value))
    /\ level_i' = level_i + 1
    /\ UNCHANGED <<decomposed_coeffs, thresholded, pc, signal, sig0, length,
                   signal_null, config_null, config, approx_coeffs_ptrs,
                   detail_coeffs_ptrs, levels, current_n,
                   current_reconstructed_signal,
                   current_reconstructed_length, cur_block, live, freed,
                   double_free, n_allocs, alloc_failed, ub, noop_levels>>
    /\ UNCHANGED <<tvars, hvars>>

ThresholdEnd ==
    /\ pc = "threshold"
    /\ ~(level_i < levels)
    /\ pc' = "alloc_recon"
    /\ UNCHANGED <<decomposed_coeffs, thresholded, signal, sig0, length,
                   signal_null, config_null, config, all_coeffs,
                   approx_coeffs_ptrs, detail_coeffs_ptrs, levels, current_n,
                   level_i, current_reconstructed_signal,
                   current_reconstructed_length, cur_block, live, freed,
                   double_free, n_allocs, alloc_failed, ub, noop_levels>>
    /\ UNCHANGED <<tvars, hvars>>

\* malloc of the first reconstruction buffer returns NULL
AllocReconFail ==
    /\ pc = "alloc_recon"
    /\ alloc_failed' = "recon"
    /\ Free(FreedOnReconFail)
    /\ pc' = "done"
    /\ UNCHANGED <<decomposed_coeffs, thresholded, signal, sig0, length,
                   signal_null, config_null, config, all_coeffs,
                   approx_coeffs_ptrs, detail_coeffs_ptrs, levels, current_n,
                   level_i, current_reconstructed_signal,
                   current_reconstructed_length, cur_block, n_allocs, ub,
                   noop_levels>>
    /\ UNCHANGED <<tvars, hvars>>

\* approx_coeffs_ptrs[levels - 1] names an entry of the table
ReconSourceInTable == levels - 1 >= 0 /\ levels - 1 < Len(approx_coeffs_ptrs)

\* malloc of the first reconstruction buffer and the memcpy of the deepest
\* approximation band into it
AllocRecon ==
    /\ pc = "alloc_recon"
    /\ ReconSourceInTable
    /\ current_reconstructed_signal' =
          Band(all_coeffs, approx_coeffs_ptrs[levels], current_n)
    /\ current_reconstructed_length' = current_n
    /\ cur_block' = cur_block + 1
    /\ live' = live \cup {ReconBlock(cur_block + 1)}
    /\ n_allocs' = n_allocs + 1
    /\ level_i' = levels - 1
    /\ pc' = "reconstruct"
    /\ UNCHANGED <<decomposed_coeffs, thresholded, signal, sig0, length,
                   signal_null, config_null, config, all_coeffs,
                   approx_coeffs_ptrs, detail_coeffs_ptrs, levels, current_n,
                   freed, double_free, alloc_failed, ub, noop_levels>>
    /\ UNCHANGED <<tvars, hvars>>

\* the same with levels = 0: the memcpy source is approx_coeffs_ptrs[-1], an
\* uninitialised pointer outside the table; the copy brings whatever it reads
AllocReconWild ==
    /\ pc = "alloc_recon"
    /\ ~ReconSourceInTable
    /\ \E g \in GarbageVals :
          current_reconstructed_signal' = Fill(current_n, g)
    /\ current_reconstructed_length' = current_n
    /\ cur_block' = cur_block + 1
    /\ live' = live \cup {ReconBlock(cur_block + 1)}
    /\ n_allocs' = n_allocs + 1
    /\ ub' = ub \cup {"table_index"}
    /\ level_i' = levels - 1
    /\ pc' = "reconstruct"
    /\ UNCHANGED <<decomposed_coeffs, thresholded, signal, sig0, length,
                   signal_null, config_null, config, all_coeffs,
                   approx_coeffs_ptrs, detail_coeffs_ptrs, levels, current_n,
                   freed, double_free, alloc_failed, noop_levels>>
    /\ UNCHANGED <<tvars, hvars>>

\* the same, and the memcpy from the wild pointer faults
AllocReconWildCrash ==
    /\ pc = "alloc_recon"
    /\ ~ReconSourceInTable
    /\ cur_block' = cur_block + 1
    /\ live' = live \cup {ReconBlock(cur_block + 1)}
    /\ n_allocs' = n_allocs + 1
    /\ ub' = ub \cup {"table_index"}
    /\ pc' = "crashed"
    /\ UNCHANGED <<decomposed_coeffs, thresholded, signal, sig0, length,
                   signal_null, config_null, config, all_coeffs,
                   approx_coeffs_ptrs, detail_coeffs_ptrs, levels, current_n,
                   level_i, current_reconstructed_signal,
                   current_reconstructed_length, freed, double_free,
                   alloc_failed, noop_levels>>
    /\ UNCHANGED <<tvars, hvars>>

\* the call of idwt in an iteration of the reconstruction loop
ReconIdwt ==
    idwt(current_reconstructed_signal,
         Band(all_coeffs, detail_coeffs_ptrs[level_i + 1],
              current_reconstructed_length),
         current_reconstructed_length, config.wavelet, config.q_format)

\* idwt stores through the NULL destinations it hands to get_wavelet_coeffs
IdwtNullStore(m) == IdwtLooksUp(m) /\ StoresThroughNull(IdwtKernelDests)

\* the reconstruction loop does not run (levels = 0); free(all_coeffs)
ReconSkipped ==
    /\ pc = "reconstruct"
    /\ ~(level_i >= 0)
    /\ Free(FreedOnLoopSkipped)
    /\ pc' = "done"
    /\ UNCHANGED <<decomposed_coeffs, thresholded, signal, sig0, length,
                   signal_null, config_null, config, all_coeffs,
                   approx_coeffs_ptrs, detail_coeffs_ptrs, levels, current_n,
                   level_i, current_reconstructed_signal,
                   current_reconstructed_length, cur_block, n_allocs,
                   alloc_failed, ub, noop_levels>>
    /\ UNCHANGED <<tvars, hvars>>

\* an iteration with i > 0 whose malloc returns NULL
ReconLevelFail ==
    /\ pc = "reconstruct"
    /\ level_i > 0
    /\ alloc_failed' = "level"
    /\ Free(FreedOnLevelFail(cur_block))
    /\ pc' = "done"
    /\ UNCHANGED <<decomposed_coeffs, thresholded, signal, sig0, length,
                   signal_null, config_null, config, all_coeffs,
                   approx_coeffs_ptrs, detail_coeffs_ptrs, levels, current_n,
                   level_i, current_reconstructed_signal,
                   current_reconstructed_length, cur_block, n_allocs, ub,
                   noop_levels>>
    /\ UNCHANGED <<tvars, hvars>>

\* an iteration with i > 0: malloc, idwt into the new buffer, free the old one
ReconLevel ==
    /\ pc = "reconstruct"
    /\ level_i > 0
    /\ LET r == ReconIdwt
           next_reconstructed_length == 2 * current_reconstructed_length
       IN /\ \E g \in GarbageVals :
                current_reconstructed_signal' =
                    IF r.ran THEN r.out ELSE Fill(next_reconstructed_length, g)
          /\ current_reconstructed_length' = next_reconstructed_length
    /\ ub' = IF IdwtNullStore(current_reconstructed_length)
             THEN ub \cup {"null_store"} ELSE ub
    /\ cur_block' = cur_block + 1
    /\ n_allocs' = n_allocs + 1
    /\ live' = (live \cup {ReconBlock(cur_block + 1)}) \ {ReconBlock(cur_block)}
    /\ freed' = freed \cup {ReconBlock(cur_block)}
    /\ double_free' = (double_free \/ ReconBlock(cur_block) \in freed)
    /\ level_i' = level_i - 1
    /\ UNCHANGED <<decomposed_coeffs, thresholded, pc, signal, sig0, length,
                   signal_null, config_null, config, all_coeffs,
                   approx_coeffs_ptrs, detail_coeffs_ptrs, levels, current_n,
                   alloc_failed, noop_levels>>
    /\ UNCHANGED <<tvars, hvars>>

\* the same iteration, and the store through NULL inside idwt faults
ReconLevelCrash ==
    /\ pc = "reconstruct"
    /\ level_i > 0
    /\ IdwtNullStore(current_reconstructed_length)
    /\ ub' = ub \cup {"null_store"}
    /\ cur_block' = cur_block + 1
    /\ n_allocs' = n_allocs + 1
    /\ live' = live \cup {ReconBlock(cur_block + 1)}
    /\ pc' = "crashed"
    /\ UNCHANGED <<decomposed_coeffs, thresholded, signal, sig0, length,
                   signal_null, config_null, config, all_coeffs,
                   approx_coeffs_ptrs, detail_coeffs_ptrs, levels, current_n,
                   level_i, current_reconstructed_signal,
                   current_reconstructed_length, freed, double_free,
                   alloc_failed, noop_levels>>
    /\ UNCHANGED <<tvars, hvars>>

\* the iteration with i = 0: idwt into the caller's buffer, free the
\* reconstruction buffer, break, free(all_coeffs)
ReconLast ==
    /\ pc = "reconstruct"
    /\ level_i = 0
    /\ LET r == ReconIdwt
       IN signal' = IF r.ran THEN WriteBand(signal, 0, r.out) ELSE signal
    /\ ub' = IF IdwtNullStore(current_reconstructed_length)
             THEN ub \cup {"null_store"} ELSE ub
    /\ Free(FreedOnLastLevel(cur_block))
    /\ pc' = "done"
    /\ UNCHANGED <<decomposed_coeffs, thresholded, sig0, length, signal_null,
                   config_null, config, all_coeffs, approx_coeffs_ptrs,
                   detail_coeffs_ptrs, levels, current_n, level_i,
                   current_reconstructed_signal,
                   current_reconstructed_length, cur_block, n_allocs,
                   alloc_failed, noop_levels>>
    /\ UNCHANGED <<tvars, hvars>>

\* the same iteration, and the store through NULL inside idwt faults
ReconLastCrash ==
    /\ pc = "reconstruct"
    /\ level_i = 0
    /\ IdwtNullStore(current_reconstructed_length)
    /\ ub' = ub \cup {"null_store"}
    /\ pc' = "crashed"
    /\ UNCHANGED <<decomposed_coeffs, thresholded, signal, sig0, length,
                   signal_null, config_null, config, all_coeffs,
                   approx_coeffs_ptrs, detail_coeffs_ptrs, levels, current_n,
                   level_i, current_reconstructed_signal,
                   current_reconstructed_length, cur_block, live, freed,
                   double_free, n_allocs, alloc_failed, noop_levels>>
    /\ UNCHANGED <<tvars, hvars>>

FilterNext ==
    \/ RejectArgs
    \/ AllocCoeffsFail
    \/ AllocCoeffs
    \/ DecomposeLevel
    \/ DecomposeShrink
    \/ DecomposeEnd
    \/ ThresholdLevel
    \/ ThresholdEnd
    \/ AllocReconFail
    \/ AllocRecon
    \/ AllocReconWild
    \/ AllocReconWildCrash
    \/ ReconSkipped
    \/ ReconLevelFail
    \/ ReconLevel
    \/ ReconLevelCrash
    \/ ReconLast
    \/ ReconLastCrash

Init == FilterInit /\ TransformIdle /\ ThresholdIdle

Next == FilterNext

Spec == Init /\ [][Next]_vars

(***************************************************************************)
(* Properties of wavelet_filter                                            *)
(***************************************************************************)
\* the arguments the interface calls invalid
InvalidCall ==
    \/ signal_null
    \/ config_null
    \/ length = 0
    \/ length > MAX_SIGNAL_LENGTH
    \/ config.decomposition_levels = 0
    \/ config.decomposition_levels > MAX_DECOMPOSITION_LEVELS

\* C1: a call with a null signal, a null configuration, length 0, length above
\* MAX_SIGNAL_LENGTH, or a level count of 0 or above MAX_DECOMPOSITION_LEVELS
\* never changes a sample of the caller's buffer, never allocates a scratch
\* buffer and never aborts.
InvalidArgsAreNoOp ==
    InvalidCall =>
        /\ signal = sig0
        /\ n_allocs = 0
        /\ live = {}
        /\ ub = {}
        /\ pc \in {"call", "done"}

\* an oversize call with otherwise good arguments has returned
InvalidArgsReturned ==
    /\ pc = "done"
    /\ ~signal_null
    /\ ~config_null
    /\ length > MAX_SIGNAL_LENGTH
    /\ config.decomposition_levels \in 1..MAX_DECOMPOSITION_LEVELS

\* C2: once a scratch allocation has failed (coefficient region, first
\* reconstruction buffer or a per-level reconstruction buffer) the call has
\* returned, the caller's buffer equals its value at entry and every scratch
\* region acquired so far has been released.
AllocFailureIsClean ==
    alloc_failed # "none" =>
        /\ pc = "done"
        /\ signal = sig0
        /\ live = {}
        /\ ~double_free
        /\ Cardinality(freed) = n_allocs

\* a per-level allocation failed after an earlier level was reconstructed
LevelAllocFailed ==
    /\ alloc_failed = "level"
    /\ pc = "done"
    /\ "null_store" \in ub
    /\ Cardinality(freed) >= 3

\* C3: when a call that passed validation returns, every scratch buffer it
\* allocated has been released exactly once and none survives.
NoBufferSurvivesReturn ==
    (pc = "done" /\ ~InvalidCall) =>
        /\ live = {}
        /\ ~double_free
        /\ Cardinality(freed) = n_allocs

\* the largest level count, at most the requested one, for which every
\* level's input length is at least 2
SupportedLevels(len, requested) ==
    LET ok == {lv \in 0..requested :
                  \A k \in 0..(lv - 1) : Shr(len, k) >= 2}
    IN CHOOSE lv \in ok : \A other \in ok : other <= lv

\* C4: a call asking for more levels than the length supports does not crash,
\* does not index the per-level tables out of range, and runs thresholding
\* and reconstruction with the largest supported level count.
ExcessLevelsDegrade ==
    (~InvalidCall
     /\ SupportedLevels(length, config.decomposition_levels)
            < config.decomposition_levels) =>
        /\ pc # "crashed"
        /\ "table_index" \notin ub
        /\ (pc \in {"threshold", "alloc_recon", "reconstruct"} =>
               levels = SupportedLevels(length, config.decomposition_levels))

\* C5: when some level's forward transform was handed an input shorter than
\* the kernel, the caller's buffer at return equals its value at entry.
ShortLevelLeavesSignal ==
    (pc = "done" /\ noop_levels # {}) => signal = sig0

(***************************************************************************)
(* Direct calls of dwt and idwt                                            *)
(***************************************************************************)
\* no wavelet_filter call is in progress
FilterIdle ==
    /\ pc = "idle"
    /\ signal = <<>>
    /\ sig0 = <<>>
    /\ length = 0
    /\ signal_null = FALSE
    /\ config_null = FALSE
    /\ config = [wavelet |-> "WAVELET_DB4", threshold_type |-> "THRESHOLD_HARD",
                 decomposition_levels |-> 6, threshold_value |-> 100,
                 q_format |-> 14]
    /\ all_coeffs = <<>>
    /\ approx_coeffs_ptrs = <<>>
    /\ detail_coeffs_ptrs = <<>>
    /\ levels = 0
    /\ current_n = 0
    /\ level_i = 0
    /\ current_reconstructed_signal = <<>>
    /\ current_reconstructed_length = 0
    /\ cur_block = 0
    /\ live = {}
    /\ freed = {}
    /\ double_free = FALSE
    /\ n_allocs = 0
    /\ alloc_failed = "none"
    /\ ub = {}
    /\ noop_levels = {}
    /\ decomposed_coeffs = <<>>
    /\ thresholded = <<>>

\* signal_in of test_single_dwt_idwt
TestVector == <<10, 20, 30, 40, 50, 60, 70, 80>>

TransformSignals ==
    UNION {SignalsOfLength(n) : n \in 0..MaxN} \cup {TestVector}

\* the caller's three output arrays are locals that nothing has written
TransformInit ==
    /\ t_pc = "call"
    /\ t_wavelet \in WaveletValues
    /\ t_q_format \in {0, 14}
    /\ t_input \in TransformSignals
    /\ t_n = Len(t_input)
    /\ \E g \in GarbageVals :
          /\ t_approx = Fill(Shr(Len(t_input), 1), g)
          /\ t_detail = Fill(Shr(Len(t_input), 1), g)
          /\ t_output = Fill(2 * Shr(Len(t_input), 1), g)
    /\ t_dwt_idx = {}
    /\ t_idwt_idx = {}
    /\ t_ub = {}

\* dwt(signal_in, approx_out, detail_out, n, wavelet, q_format)
CallDwt ==
    /\ t_pc = "call"
    /\ LET r == dwt(t_input, t_n, t_wavelet, t_q_format)
       IN /\ t_approx' = IF r.ran THEN r.approx ELSE t_approx
          /\ t_detail' = IF r.ran THEN r.detail ELSE t_detail
    /\ t_dwt_idx' = DwtIndices(t_n, t_wavelet)
    /\ t_ub' = IF DwtNullStore(t_n) THEN t_ub \cup {"null_store"} ELSE t_ub
    /\ t_pc' = "dwt_done"
    /\ UNCHANGED <<t_wavelet, t_q_format, t_input, t_n, t_output, t_idwt_idx>>
    /\ UNCHANGED <<fvars, hvars>>

\* idwt(approx_out, detail_out, signal_reconstructed, n/2, wavelet, q_format)
CallIdwt ==
    /\ t_pc = "dwt_done"
    /\ LET r == idwt(t_approx, t_detail, Shr(t_n, 1), t_wavelet, t_q_format)
       IN t_output' = IF r.ran THEN r.out ELSE t_output
    /\ t_idwt_idx' = IdwtIndices(Shr(t_n, 1), t_wavelet)
    /\ t_ub' = IF IdwtNullStore(Shr(t_n, 1))
               THEN t_ub \cup {"null_store"} ELSE t_ub
    /\ t_pc' = "idwt_done"
    /\ UNCHANGED <<t_wavelet, t_q_format, t_input, t_n, t_approx, t_detail,
                   t_dwt_idx>>
    /\ UNCHANGED <<fvars, hvars>>

\* the same call, and the store through NULL inside idwt faults
CallIdwtCrash ==
    /\ t_pc = "dwt_done"
    /\ IdwtNullStore(Shr(t_n, 1))
    /\ t_ub' = t_ub \cup {"null_store"}
    /\ t_pc' = "crashed"
    /\ UNCHANGED <<t_wavelet, t_q_format, t_input, t_n, t_approx, t_detail,
                   t_output, t_dwt_idx, t_idwt_idx>>
    /\ UNCHANGED <<fvars, hvars>>

TransformNext ==
    \/ CallDwt
    \/ CallIdwt
    \/ CallIdwtCrash

InitTransform == TransformInit /\ FilterIdle /\ ThresholdIdle

SpecTransform == InitTransform /\ [][TransformNext]_vars

(***************************************************************************)
(* Direct calls of apply_thresholding                                      *)
(***************************************************************************)
\* coefficient values, with both ends of int16_t
CoeffVals == {-32768, -150, -5, 0, 5, 150, 32767}

\* values of config->threshold_value, with both ends of int16_t
ThresholdVals == {-32768, -100, -1, 0, 1, 100, 32767}

RECURSIVE BandsOfLength(_)
BandsOfLength(n) ==
    IF n = 0 THEN {<<>>}
    ELSE {Append(b, c) : b \in BandsOfLength(n - 1), c \in CoeffVals}

ThresholdBands == UNION {BandsOfLength(n) : n \in 0..MaxBand}

ThresholdInit ==
    /\ h_band \in ThresholdBands
    /\ h_threshold \in ThresholdVals
    /\ h_hard = h_band
    /\ h_soft = h_band
    /\ h_hard_done = FALSE
    /\ h_soft_done = FALSE

\* apply_thresholding with THRESHOLD_HARD on one copy of the band
ApplyHard ==
    /\ ~h_hard_done
    /\ h_hard' = apply_thresholding(h_hard, Len(h_hard), "THRESHOLD_HARD",
                                    h_threshold)
    /\ h_hard_done' = TRUE
    /\ UNCHANGED <<h_band, h_threshold, h_soft, h_soft_done>>
    /\ UNCHANGED <<fvars, tvars>>

\* apply_thresholding with THRESHOLD_SOFT on the other copy
ApplySoft ==
    /\ ~h_soft_done
    /\ h_soft' = apply_thresholding(h_soft, Len(h_soft), "THRESHOLD_SOFT",
                                    h_threshold)
    /\ h_soft_done' = TRUE
    /\ UNCHANGED <<h_band, h_threshold, h_hard, h_hard_done>>
    /\ UNCHANGED <<fvars, tvars>>

ThresholdNext ==
    \/ ApplyHard
    \/ ApplySoft

InitThreshold == ThresholdInit /\ FilterIdle /\ TransformIdle

SpecThreshold == InitThreshold /\ [][ThresholdNext]_vars

(***************************************************************************)
(* Properties of the transforms and of the thresholding stage              *)
(***************************************************************************)
\* sum of the squared differences of the first n samples
RECURSIVE SquaredError(_, _, _)
SquaredError(a, b, n) ==
    IF n = 0 THEN 0
    ELSE (a[n] - b[n]) * (a[n] - b[n]) + SquaredError(a, b, n - 1)

\* mean-squared error over len samples below 1.0, the first n compared.  A
\* single difference of 256 or more already exceeds it for any len up to
\* 65536; testing that first keeps the squares small.
MseBelowOne(a, b, n, len) ==
    /\ \A k \in 1..n : Abs(a[k] - b[k]) < 256
    /\ SquaredError(a, b, n) < len

\* C6: for Haar, Daubechies-4 and Daubechies-6 and every signal at least as
\* long as the kernel, idwt of the two bands of dwt reconstructs the signal
\* with mean-squared error below 1.0 (squared error below n).
RoundTripWithinTolerance ==
    (/\ t_pc = "idwt_done"
     /\ t_wavelet \in WaveletTypes
     /\ t_n >= get_wavelet_coeffs(t_wavelet).len) =>
        /\ Len(t_approx) = Shr(t_n, 1)
        /\ Len(t_detail) = Shr(t_n, 1)
        /\ MseBelowOne(t_input, t_output, 2 * Shr(t_n, 1), t_n)

\* C7 as stated: for every int16 threshold_value, each soft-thresholded
\* coefficient has magnitude at most that of the hard-thresholded one.
SoftAtMostHardAnyThreshold ==
    (h_hard_done /\ h_soft_done) =>
        \A k \in 1..Len(h_band) : Abs(h_soft[k]) <= Abs(h_hard[k])

\* C7: for every threshold_value >= 0, each soft-thresholded coefficient has
\* magnitude at most that of the hard-thresholded one.
SoftAtMostHard ==
    (h_hard_done /\ h_soft_done /\ h_threshold >= 0) =>
        \A k \in 1..Len(h_band) : Abs(h_soft[k]) <= Abs(h_hard[k])

\* a coefficient was shrunk, not zeroed, by a positive threshold
SoftShrankCoeff ==
    /\ h_hard_done
    /\ h_soft_done
    /\ h_threshold > 0
    /\ \E k \in 1..Len(h_band) :
          /\ h_soft[k] # 0
          /\ Abs(h_soft[k]) < Abs(h_hard[k])

\* C8: every input index dwt computes lies in 0..n-1 and every output index
\* idwt computes lies in 0..2m-1.
CircularIndicesInRange ==
    /\ t_dwt_idx \subseteq 0..(t_n - 1)
    /\ t_idwt_idx \subseteq 0..(2 * Shr(t_n, 1) - 1)

\* Daubechies-6 on a signal of exactly 6 samples: both transforms ran and
\* wrapped around both ends of their buffers
Db6OnSixSamples ==
    /\ t_pc = "idwt_done"
    /\ t_wavelet = "WAVELET_DB6"
    /\ t_n = 6
    /\ t_dwt_idx = 0..5
    /\ t_idwt_idx = 0..5

(***************************************************************************)
(* Thresholding by concurrent workers                                      *)
(***************************************************************************)
\* the detail-band coefficients of the active levels, as <<level, index>>
DetailCells ==
    {c \in (0..(levels - 1)) \X (0..(Shr(length, 1) - 1)) :
        c[2] < Shr(length, c[1] + 1)}

ThresholdedCells == {thresholded[n] : n \in 1..Len(thresholded)}

\* a worker runs the body of apply_thresholding's loop on one coefficient of
\* one level's detail band that no worker has taken yet
WorkerThreshold ==
    /\ pc = "threshold"
    /\ \E c \in DetailCells \ ThresholdedCells :
          /\ all_coeffs' =
                [all_coeffs EXCEPT ![detail_coeffs_ptrs[c[1] + 1] + c[2] + 1] =
                    ThresholdCoeff(@, config.threshold_type,
                                   config.threshold_value)]
          /\ thresholded' = Append(thresholded, c)
    /\ UNCHANGED <<pc, signal, sig0, length, signal_null, config_null, config,
                   approx_coeffs_ptrs, detail_coeffs_ptrs, levels, current_n,
                   level_i, current_reconstructed_signal,
                   current_reconstructed_length, cur_block, live, freed,
                   double_free, n_allocs, alloc_failed, ub, noop_levels,
                   decomposed_coeffs>>
    /\ UNCHANGED <<tvars, hvars>>

\* reconstruction starts only when every coefficient has been thresholded
WorkersJoin ==
    /\ pc = "threshold"
    /\ DetailCells \subseteq ThresholdedCells
    /\ pc' = "alloc_recon"
    /\ UNCHANGED <<signal, sig0, length, signal_null, config_null, config,
                   all_coeffs, approx_coeffs_ptrs, detail_coeffs_ptrs, levels,
                   current_n, level_i, current_reconstructed_signal,
                   current_reconstructed_length, cur_block, live, freed,
                   double_free, n_allocs, alloc_failed, ub, noop_levels,
                   decomposed_coeffs, thresholded>>
    /\ UNCHANGED <<tvars, hvars>>

\* calls that pass the argument checks
ValidFilterConfigs ==
    {c \in FilterConfigs :
        c.decomposition_levels \in 1..MAX_DECOMPOSITION_LEVELS}

ParallelSignals == UNION {SignalsOfLength(n) : n \in 1..MaxParLen}

ParallelConfigs == {c \in ValidFilterConfigs : c.threshold_value = 100}

ParallelInit == FilterStart(ParallelSignals, ParallelConfigs, {FALSE})

ParallelNext ==
    \/ AllocCoeffsFail
    \/ AllocCoeffs
    \/ DecomposeLevel
    \/ DecomposeShrink
    \/ DecomposeEnd
    \/ WorkerThreshold
    \/ WorkersJoin
    \/ AllocReconFail
    \/ AllocRecon
    \/ AllocReconWild
    \/ AllocReconWildCrash
    \/ ReconSkipped
    \/ ReconLevelFail
    \/ ReconLevel
    \/ ReconLevelCrash
    \/ ReconLast
    \/ ReconLastCrash

InitParallel == ParallelInit /\ TransformIdle /\ ThresholdIdle

SpecParallel == InitParallel /\ [][ParallelNext]_vars

\* the thresholding loop of wavelet_filter run in its own order, level l first
RECURSIVE SequentialThreshold(_, _)
SequentialThreshold(coeffs, l) ==
    IF ~(l < levels) THEN coeffs
    ELSE SequentialThreshold(
             WriteBand(coeffs, detail_coeffs_ptrs[l + 1],
                       apply_thresholding(
                           Band(coeffs, detail_coeffs_ptrs[l + 1],
                                Shr(length, l + 1)),
                           Shr(length, l + 1), config.threshold_type,
                           config.threshold_value)),
             l + 1)

\* the signals the reconstruction loop can leave in the caller's buffer when
\* it starts iteration l with the given reconstruction buffer (one signal,
\* or one per content of a buffer that idwt left unwritten)
RECURSIVE ReconResults(_, _, _, _)
ReconResults(coeffs, rec, rec_len, l) ==
    IF l < 0 THEN {sig0}
    ELSE LET r == idwt(rec, Band(coeffs, detail_coeffs_ptrs[l + 1], rec_len),
                       rec_len, config.wavelet, config.q_format)
         IN IF l = 0
            THEN {IF r.ran THEN WriteBand(sig0, 0, r.out) ELSE sig0}
            ELSE IF r.ran
                 THEN ReconResults(coeffs, r.out, 2 * rec_len, l - 1)
                 ELSE UNION {ReconResults(coeffs, Fill(2 * rec_len, g),
                                          2 * rec_len, l - 1) :
                                g \in GarbageVals}

\* the final signals of the sequential thresholding and reconstruction
SequentialResults ==
    LET coeffs == SequentialThreshold(decomposed_coeffs, 0)
    IN IF levels = 0 THEN {sig0}
       ELSE ReconResults(coeffs,
                         Band(coeffs, approx_coeffs_ptrs[levels], current_n),
                         current_n, levels - 1)

SineTable ==
    <<
      0, 2, 4, 7, 9, 12, 14, 17, 19, 21, 24, 26, 29, 31, 33, 35,
      38, 40, 42, 44, 47, 49, 51, 53, 55, 57, 59, 61, 63, 65, 67, 68,
      70, 72, 74, 75, 77, 78, 80, 81, 83, 84, 85, 87, 88, 89, 90, 91,
      92, 93, 94, 94, 95, 96, 97, 97, 98, 98, 98, 99, 99, 99, 99, 99,
      100, 99, 99, 99, 99, 99, 98, 98, 98, 97, 97, 96, 95, 94, 94, 93,
      92, 91, 90, 89, 88, 87, 85, 84, 83, 81, 80, 78, 77, 75, 74, 72,
      70, 68, 67, 65, 63, 61, 59, 57, 55, 53, 51, 49, 47, 44, 42, 40,
      38, 35, 33, 31, 29, 26, 24, 21, 19, 17, 14, 12, 9, 7, 4, 2,
      0, -2, -4, -7, -9, -12, -14, -17, -19, -21, -24, -26, -29, -31, -33, -35,
      -38, -40, -42, -44, -47, -49, -51, -53, -55, -57, -59, -61, -63, -65, -67, -68,
      -70, -72, -74, -75, -77, -78, -80, -81, -83, -84, -85, -87, -88, -89, -90, -91,
      -92, -93, -94, -94, -95, -96, -97, -97, -98, -98, -98, -99, -99, -99, -99, -99,
      -100, -99, -99, -99, -99, -99, -98, -98, -98, -97, -97, -96, -95, -94, -94, -93,
      -92, -91, -90, -89, -88, -87, -85, -84, -83, -81, -80, -78, -77, -75, -74, -72,
      -70, -68, -67, -65, -63, -61, -59, -57, -55, -53, -51, -49, -47, -44, -42, -40,
      -38, -35, -33, -31, -29, -26, -24, -21, -19, -17, -14, -12, -9, -7, -4, -2
    >>

\* the two spikes generate_test_signal adds
SpikedSignal ==
    [k \in 1..Len(SineTable) |->
        IF k - 1 = Len(SineTable) \div 4 THEN Int16(SineTable[k] + 2000)
        ELSE IF k - 1 = Len(SineTable) \div 2 THEN Int16(SineTable[k] - 1500)
        ELSE SineTable[k]]

\* the configuration of test_spike_removal_db4
SpikeTestConfig ==
    [wavelet |-> "WAVELET_DB4", threshold_type |-> "THRESHOLD_HARD",
     decomposition_levels |-> 1, threshold_value |-> 10000, q_format |-> 14]

\* one-level configurations around the ones the test suite uses
SpikeConfigs ==
    [wavelet : WaveletTypes,
     threshold_type : ThresholdTypes,
     decomposition_levels : {1},
     threshold_value : {0, 100, 10000},
     q_format : {14}]

SpikeInit == FilterStart({SpikedSignal}, SpikeConfigs, {FALSE})

SpikeNext ==
    \/ AllocCoeffsFail
    \/ AllocCoeffs
    \/ DecomposeLevel
    \/ DecomposeEnd
    \/ ThresholdLevel
    \/ ThresholdEnd
    \/ AllocReconFail
    \/ AllocRecon
    \/ ReconLast
    \/ ReconLastCrash

InitSpike == SpikeInit /\ TransformIdle /\ ThresholdIdle

SpecSpike == InitSpike /\ [][SpikeNext]_vars

\* C10: after the Daubechies-4, one-level, hard-threshold-10000, Q14 filter
\* of the spiked sinusoid, the samples at 64 and 128 are within 100 of the
\* unspiked sinusoid.
SpikesRemoved ==
    (pc = "done" /\ alloc_failed = "none" /\ config = SpikeTestConfig) =>
        /\ Abs(signal[65] - SineTable[65]) < 100
        /\ Abs(signal[129] - SineTable[129]) < 100

(***************************************************************************)
(* The partition of the coefficient region                                 *)
(***************************************************************************)
\* the sum over levels i..(lv - 1) of 2 * (len >> (i + 1))
RECURSIVE SumOfBandPairs(_, _, _)
SumOfBandPairs(i, lv, len) ==
    IF i >= lv THEN 0
    ELSE 2 * Shr(len, i + 1) + SumOfBandPairs(i + 1, lv, len)

\* the cells of the region covered by n elements from offset off
Cells(off, n) == off..(off + n - 1)

\* the sub-regions of the planned levels: approximation and detail of each
SubRegions ==
    [b \in {"approx", "detail"} \X (0..(Len(approx_coeffs_ptrs) - 1)) |->
        Cells(IF b[1] = "approx" THEN approx_coeffs_ptrs[b[2] + 1]
                                 ELSE detail_coeffs_ptrs[b[2] + 1],
              Shr(length, b[2] + 1))]

\* C11: while the coefficient region of an accepted call is allocated, its
\* size is the sum over the planned levels i of 2 * (length >> (i + 1)); the
\* approximation and the detail sub-region of level i, each of length
\* length >> (i + 1), which is the band length the transform of level i
\* writes, lie inside the region and all sub-regions are pairwise
\* disjoint; and the number of planned levels is the number of levels
\* decomposed and the number of levels thresholded.
ScratchPartition ==
    AllCoeffsBlock \in live =>
        LET planned == Len(approx_coeffs_ptrs)
        IN /\ planned = SupportedLevels(length, config.decomposition_levels)
           /\ Len(detail_coeffs_ptrs) = planned
           /\ Len(all_coeffs) = SumOfBandPairs(0, planned, length)
           /\ \A b \in DOMAIN SubRegions :
                  SubRegions[b] \subseteq Cells(0, Len(all_coeffs))
           /\ (pc = "decompose" /\ level_i < planned =>
                  Shr(current_n, 1) = Shr(length, level_i + 1))
           /\ \A b, c \in DOMAIN SubRegions :
                  b # c => SubRegions[b] \cap SubRegions[c] = {}
           /\ (pc = "decompose" => level_i <= planned)
           /\ (pc \in {"threshold", "alloc_recon", "reconstruct"} =>
                  levels = planned)
           /\ (pc = "threshold" => level_i <= planned)
           /\ (pc = "alloc_recon" => level_i = planned)

\* a length that is no power of two, more levels requested than planned, and
\* both planned levels decomposed and thresholded
TwoOfThreeLevelsPartitioned ==
    /\ pc = "alloc_recon"
    /\ AllCoeffsBlock \in live
    /\ length = 6
    /\ config.decomposition_levels = 3
    /\ Len(approx_coeffs_ptrs) = 2
    /\ level_i = 2
    /\ levels = 2

(***************************************************************************)
(* The lengths of the reconstruction                                       *)
(***************************************************************************)
\* C12: at the reconstruction step for level i the running reconstruction
\* buffer has the length of level i's detail band, length >> (i + 1), and
\* in a completed call whose last inverse transform, for level 0, ran, that
\* transform consumed the whole level-0 detail band and wrote `length`
\* samples of the caller's buffer.
ReconLengthsMatchBands ==
    /\ (pc = "reconstruct" /\ level_i >= 0 =>
           current_reconstructed_length = Shr(length, level_i + 1))
    /\ ((pc = "done" /\ ~InvalidCall /\ alloc_failed = "none" /\ levels >= 1
         /\ IdwtRuns(current_reconstructed_length, config.wavelet)) =>
           /\ level_i = 0
           /\ current_reconstructed_length = Shr(length, 1)
           /\ 2 * current_reconstructed_length = length)

(***************************************************************************)
(* The destinations of the filter-bank lookup                              *)
(***************************************************************************)
\* C13: every call of get_wavelet_coeffs, from dwt and from idwt and for
\* every wavelet value, recognised or not, hands a non-null destination for
\* each output the lookup stores through: no direct call of dwt or idwt
\* stores through a null reference or faults on one.
KernelLookupsStoreSafely ==
    /\ "null_store" \notin t_ub
    /\ t_pc # "crashed"

====
